---------------------------- MODULE Spec2Model ----------------------------
(***************************************************************************)
(* Model of the sensor-fusion core of kc_plus: the Nebula director         *)
(* (src/nebula/nebula.py), its ingestion loop dancer_input, the min-max    *)
(* scaler and the rolling buffers kept in the shared hivemind.             *)
(*                                                                         *)
(* Numbers.  Raw samples are integers.  Normalised values are exact        *)
(* rationals <<num, den>> with den > 0, so that division and clipping are  *)
(* computed and not assumed.  A buffer is a sequence of columns, oldest    *)
(* first; a column is a sequence with one entry per channel, so the shape  *)
(* of a buffer is (length of a column) x (length of the sequence).         *)
(*                                                                         *)
(* Time.  One clock unit is 50 ms; sleep(0.1) is PacingInterval units.     *)
(***************************************************************************)
EXTENDS Integers, Sequences, FiniteSets, TLC

---------------------------------------------------------------------------
(* Bounds of the model *)

BufWidth == 3        \* window length of the raw EDA and the x/y buffers
MaxTime == 6         \* the clock stops here
MaxDuration == 4     \* longest piece duration the caller may configure
MaxRetry == 1        \* failed connection attempts before the model stops failing
MaxTerminate == 2    \* calls of terminate()
MaxAppends == 6      \* appends applied by the rolling-buffer harness
MaxRollWidth == 5    \* widest buffer of the rolling-buffer harness
MaxCalls == 2        \* calls of main_loop() on one Nebula object
MaxDepth == 3        \* frames the interpreter allows before RecursionError
MaxAbs == 3          \* scaler harness: inputs, mins and maxs in -MaxAbs..MaxAbs

(* Program constants *)

PacingInterval == 2                  \* sleep(0.1), in clock units of 50 ms
SynthCols == 50                      \* np.random.uniform(size=(1, 50))
dancer_x_extents == <<0, 1000>>
dancer_y_extents == <<0, 1000>>
dancer_z_extents == <<0, 1000>>

None == -1                           \* self.endtime = None

SampleVals == {0, 1}                 \* values a column of an adapter row takes
RowLen == 4                          \* trailing columns of an adapter row
Rows == [1..RowLen -> SampleVals]
UnitVals == {<<0, 1>>, <<1, 2>>}     \* values random() / uniform draws take

---------------------------------------------------------------------------
(* Rationals <<num, den>>, den > 0, in lowest terms *)

Abs(n) == IF n < 0 THEN -n ELSE n

RECURSIVE Gcd(_, _)
Gcd(a, b) == IF b = 0 THEN a ELSE Gcd(b, a % b)

Rat(n, d) ==
    LET g == Gcd(Abs(n), Abs(d))
        s == IF d < 0 THEN -1 ELSE 1
    IN  <<(s * n) \div g, (s * d) \div g>>

RatOf(i) == <<i, 1>>
RatSub(a, b) == Rat(a[1] * b[2] - b[1] * a[2], a[2] * b[2])
RatMul(a, b) == Rat(a[1] * b[1], a[2] * b[2])
RatDiv(a, b) == Rat(a[1] * b[2], a[2] * b[1])
RatLeq(a, b) == a[1] * b[2] <= b[1] * a[2]
Zero == <<0, 1>>
One == <<1, 1>>
InUnit(q) == RatLeq(Zero, q) /\ RatLeq(q, One)

(* ndarray.clip(0, 1) on one entry *)
ClipNone(q) == q
Clip01(q) == IF RatLeq(q, Zero) THEN Zero ELSE IF RatLeq(One, q) THEN One ELSE q

(* Python indexing of a sequence: seq[i] with a negative index, and
   seq[a:b] with negative a, b and step 1 *)
PyIndex(seq, i) == seq[Len(seq) + i + 1]
PyMax0(n) == IF n < 0 THEN 0 ELSE n
PySlice(seq, a, b) == SubSeq(seq, PyMax0(Len(seq) + a) + 1, PyMax0(Len(seq) + b))

(* np.append(buf, col, axis=1) and np.delete(buf, 0, axis=1) *)
NpPrepend(buf, col) == <<col>> \o buf
NpAppend(buf, col) == Append(buf, col)
NpDeleteNothing(buf) == buf
NpDelete0(buf) == Tail(buf)

(* the loop's append step, lines 154-157: append on the right, then delete
   column 0 *)
RollingAppend(buf, col) == NpDelete0(NpAppend(buf, col))

Width(buf) == Len(buf)
Channels(buf) == IF Len(buf) = 0 THEN 0 ELSE Len(buf[1])
Shape(buf) == <<Channels(buf), Width(buf)>>
Filled(n, col) == [i \in 1..n |-> col]


---------------------------------------------------------------------------
(* scipy.signal.detrend(window): the residual of the least-squares line
   through the points (i, w[i+1]), i = 0..n-1, of one channel *)

RECURSIVE SumTo(_, _, _)
SumTo(f, w, k) == IF k = 0 THEN 0 ELSE SumTo(f, w, k - 1) + (IF f = 0 THEN w[k] ELSE (k - 1) * w[k])

DetrendConstant(w) ==
    LET n == Len(w)
        A == SumTo(0, w, n)
    IN  [i \in 1..n |-> Rat(n * w[i] - A, n)]

DetrendChannel(w) ==
    LET n   == Len(w)
        Si  == (n * (n - 1)) \div 2
        Sii == ((n - 1) * n * (2 * n - 1)) \div 6
        A   == SumTo(0, w, n)
        B   == SumTo(1, w, n)
        Dn  == n * Sii - Si * Si
        Nb  == n * B - Si * A
        K   == n * Dn
    IN  [i \in 1..n |-> Rat(K * w[i] - (Dn * A - Nb * Si) - n * Nb * (i - 1), K)]

(* the row of channel c of a buffer, and detrend over every channel *)
ChannelRow(buf, c) == [i \in 1..Len(buf) |-> buf[i][c]]
detrend(buf) == [c \in 1..Channels(buf) |-> DetrendChannel(ChannelRow(buf, c))]

RECURSIVE RatMinOf(_, _)
RatMinOf(r, k) ==
    IF k = 1 THEN r[1]
    ELSE LET m == RatMinOf(r, k - 1) IN IF RatLeq(r[k], m) THEN r[k] ELSE m
RECURSIVE RatMaxOf(_, _)
RatMaxOf(r, k) ==
    IF k = 1 THEN r[1]
    ELSE LET m == RatMaxOf(r, k - 1) IN IF RatLeq(m, r[k]) THEN r[k] ELSE m

(* scaler(in_feature, mins, maxs): one entry per channel.  A zero range in
   any channel raises the RuntimeWarning, which is turned into an error and
   caught: the whole vector falls back to in_feature.  The clip follows on
   both paths. *)
ZeroDivision(mins, maxs) == \E c \in 1..Len(mins) : maxs[c] = mins[c]

scalerRawFallback(in_feature, mins, maxs) ==
    IF ZeroDivision(mins, maxs) THEN in_feature
    ELSE [c \in 1..Len(in_feature) |->
            Clip01(RatDiv(RatSub(in_feature[c], mins[c]), RatSub(maxs[c], mins[c])))]

scaler(in_feature, mins, maxs) ==
    LET norm_feature ==
            IF ZeroDivision(mins, maxs) THEN in_feature
            ELSE [c \in 1..Len(in_feature) |->
                    RatDiv(RatSub(in_feature[c], mins[c]), RatSub(maxs[c], mins[c]))]
    IN  [c \in 1..Len(in_feature) |-> Clip01(norm_feature[c])]

(* lines 159-168: detrend the raw buffer, take min and max per channel,
   lower the min by 5 % of the range, scale the newest column *)
EdaMinsNoMargin(d) == [c \in 1..Len(d) |-> RatMinOf(d[c], Len(d[c]))]
EdaMins(d) == [c \in 1..Len(d) |->
                 RatSub(RatMinOf(d[c], Len(d[c])),
                        RatMul(<<1, 20>>, RatSub(RatMaxOf(d[c], Len(d[c])), RatMinOf(d[c], Len(d[c])))))]
EdaMaxs(d) == [c \in 1..Len(d) |-> RatMaxOf(d[c], Len(d[c]))]
EdaLast(d) == [c \in 1..Len(d) |-> d[c][Len(d[c])]]
EdaNorm(raw) == LET d == detrend(raw) IN scaler(EdaLast(d), EdaMins(d), EdaMaxs(d))
EdaZeroDiv(raw) == LET d == detrend(raw) IN ZeroDivision(EdaMins(d), EdaMaxs(d))

---------------------------------------------------------------------------
(* State *)

VARIABLES
    running,                \* hivemind.running
    eda_buffer_raw,         \* hivemind.eda_buffer_raw, 1 x BufWidth
    eda_buffer,             \* hivemind.eda_buffer, 1 x SynthCols
    current_dancer_x_y,     \* hivemind.current_dancer_x_y, 2 x BufWidth
    current_dancer_x_y_z,   \* hivemind.current_dancer_x_y_z
    current_dancer_rnd,     \* hivemind.current_dancer_rnd
    BITALINO_CONNECTED,     \* self.BITALINO_CONNECTED
    endtime,                \* self.endtime
    eda,                    \* self.eda: "none", "open" or "closed"
    npc,                    \* the caller: "connect", "start", "built", "failed"
    retries,                \* failed connection attempts so far
    now,                    \* time()
    dpc,                    \* position of the dancer_input thread
    wake,                   \* end of the current sleep(0.1)
    eda_raw,                \* local eda_raw of dancer_input
    eda_norm,               \* local eda_norm of dancer_input
    sample,                 \* the row the last self.eda.read(1)[0] of the loop gave
    reads,                  \* calls of self.eda.read
    closeCalls,             \* calls of self.eda.close
    termReturned,           \* calls of terminate() that have returned
    zeroDivLogs,            \* "Scaler encountered zero division" records
    falls,                  \* times running went from true to false
    ticks,                  \* ticks the loop has entered
    lateTicks,              \* ticks whose body began with the stop condition true
    startShape,             \* shapes of the three buffers when the loop started
    rb,                     \* rolling-buffer harness: width, buffer, inputs so far
    sc,                     \* scaler harness: input, min, max, output
    loops,                  \* position of the dancer_input thread of each main_loop() call
    dt,                     \* detrend harness: window, residual, normalized newest sample
    bot                     \* Drawbot harness: pose, call, commands sent, shape lists

hivemind == <<running, eda_buffer_raw, eda_buffer, current_dancer_x_y,
              current_dancer_x_y_z, current_dancer_rnd>>
buffers == <<eda_buffer_raw, eda_buffer, current_dancer_x_y>>
data == <<eda_buffer_raw, eda_buffer, current_dancer_x_y,
          current_dancer_x_y_z, current_dancer_rnd>>
nebula == <<BITALINO_CONNECTED, endtime, eda, npc, retries>>
thread == <<dpc, wake, eda_raw, eda_norm, sample>>
history == <<reads, closeCalls, termReturned, zeroDivLogs, falls, ticks,
             lateTicks, startShape>>
harness == <<rb, sc, loops, dt, bot>>
mainVars == <<hivemind, nebula, thread, history, now>>
vars == <<mainVars, harness>>

Shapes == [raw |-> Shape(eda_buffer_raw), norm |-> Shape(eda_buffer),
           xy |-> Shape(current_dancer_x_y)]

---------------------------------------------------------------------------
(* Construction *)

(* The hivemind as its constructor leaves it: buffers pre-filled with
   neutral values. *)
HivemindInit ==
    /\ eda_buffer_raw = Filled(BufWidth, <<0>>)
    /\ eda_buffer = Filled(SynthCols, <<Zero>>)
    /\ current_dancer_x_y = Filled(BufWidth, <<Zero, Zero>>)
    /\ current_dancer_x_y_z = <<Zero, Zero, Zero>>
    /\ current_dancer_rnd = Zero

NoWindow == [in |-> <<>>, out |-> <<>>, norm |-> <<>>]
NoBot == [pose |-> <<>>, call |-> "none", args |-> <<>>, at |-> "idle", depth |-> 0,
          cmds |-> <<>>, squares |-> <<>>, triangles |-> <<>>, chars |-> <<>>]
NoLoops == [t \in 1..MaxCalls |-> "unstarted"]

HarnessIdle ==
    /\ rb = [w |-> 0, buf |-> <<>>, ins |-> <<>>]
    /\ sc = [in |-> 0, mins |-> 0, maxs |-> 1, out |-> <<>>]
    /\ loops = NoLoops
    /\ dt = NoWindow
    /\ bot = NoBot

(* Nebula.__init__ up to line 91: running is set, the mode is read from
   config.eda_live.  Without the adapter the constructor is finished. *)
NebulaInit ==
    /\ running = TRUE
    /\ BITALINO_CONNECTED \in BOOLEAN
    /\ npc = IF BITALINO_CONNECTED THEN "connect" ELSE "built"
    /\ endtime = None
    /\ eda = "none"
    /\ retries = 0

MainInit ==
    /\ HivemindInit
    /\ NebulaInit
    /\ now = 0
    /\ dpc = "idle"
    /\ wake = 0
    /\ eda_raw = <<>>
    /\ eda_norm = <<>>
    /\ sample = <<>>
    /\ reads = 0
    /\ closeCalls = 0
    /\ termReturned = 0
    /\ zeroDivLogs = 0
    /\ falls = 0
    /\ ticks = 0
    /\ lateTicks = 0
    /\ startShape = Shapes

Init == MainInit /\ HarnessIdle

(* line 99: BITalino(mac) succeeds *)
ConnectOk ==
    /\ npc = "connect"
    /\ eda' = "open"
    /\ npc' = "start"
    /\ UNCHANGED <<hivemind, BITALINO_CONNECTED, endtime, retries, thread,
                   history, now, harness>>

ConnectFailFallback(retry) ==
    /\ npc = "connect"
    /\ retries < MaxRetry
    /\ retries' = retries + 1
    /\ npc' = IF retry THEN "connect" ELSE "built"
    /\ BITALINO_CONNECTED' = retry
    /\ UNCHANGED <<hivemind, endtime, eda, thread, history, now, harness>>

(* lines 101-105: OSError, the prompt, and the user's answer *)
ConnectFail(retry) ==
    /\ npc = "connect"
    /\ retries < MaxRetry
    /\ retries' = retries + 1
    /\ npc' = IF retry THEN "connect" ELSE "start"
    /\ UNCHANGED <<hivemind, BITALINO_CONNECTED, endtime, eda, thread,
                   history, now, harness>>

(* lines 107-117: start the adapter and take the first sample.  self.eda
   was never assigned when the user declined: AttributeError.  Whether
   read(1)[0, 1, 2, 3] can be indexed depends on the adapter's array type,
   which is outside this file: both outcomes are modelled. *)
StartAdapter(indexable) ==
    /\ npc = "start"
    /\ IF eda = "none"
       THEN /\ npc' = "failed"
            /\ UNCHANGED reads
       ELSE /\ reads' = reads + 1
            /\ npc' = IF indexable THEN "built" ELSE "failed"
    /\ UNCHANGED <<hivemind, BITALINO_CONNECTED, endtime, eda, retries, thread,
                   closeCalls, termReturned, zeroDivLogs, falls, ticks,
                   lateTicks, startShape, now, harness>>

(* The caller assigns the deadline, once, before the loops start. *)
SetEndtime(d) ==
    /\ npc = "built"
    /\ dpc = "idle"
    /\ endtime = None
    /\ endtime' = now + d
    /\ UNCHANGED <<hivemind, BITALINO_CONNECTED, eda, npc, retries, thread,
                   reads, closeCalls, termReturned, zeroDivLogs, falls, ticks,
                   lateTicks, startShape, now, harness>>

(* main_loop: the three threads are started; dancer_input is at its
   while. *)
main_loop ==
    /\ npc = "built"
    /\ dpc = "idle"
    /\ dpc' = "while"
    /\ startShape' = Shapes
    /\ UNCHANGED <<hivemind, nebula, wake, eda_raw, eda_norm, sample, reads,
                   closeCalls, termReturned, zeroDivLogs, falls, ticks,
                   lateTicks, now, harness>>

(* The clock.  Time is measured from the moment the deadline is assigned
   or the loops are started, whichever comes first. *)
Tock ==
    /\ endtime # None \/ dpc # "idle"
    /\ now < MaxTime
    /\ now' = now + 1
    /\ UNCHANGED <<hivemind, nebula, thread, history, harness>>

---------------------------------------------------------------------------
(* dancer_input *)

(* line 139: time() >= self.endtime *)
DeadlineStrictlyPassed(t, e) == t > e
DeadlineReached(t, e) == t >= e

StopCondition == ~running \/ (endtime # None /\ DeadlineReached(now, endtime))
Late == IF StopCondition THEN 1 ELSE 0

(* line 138: while self.hivemind.running *)
DancerWhile ==
    /\ dpc = "while"
    /\ dpc' = IF running THEN "deadline" ELSE "exit"
    /\ UNCHANGED <<hivemind, nebula, wake, eda_raw, eda_norm, sample, history, now, harness>>

(* lines 139-142: the deadline check and the choice of branch.  Comparing
   a float with None raises TypeError, which ends the thread. *)
DancerDeadline ==
    /\ dpc = "deadline"
    /\ IF endtime = None
       THEN dpc' = "crashed" /\ UNCHANGED ticks
       ELSE IF DeadlineReached(now, endtime)
       THEN dpc' = "exit" /\ UNCHANGED ticks
       ELSE /\ dpc' = IF BITALINO_CONNECTED THEN "read_eda" ELSE "syn_eda"
            /\ ticks' = ticks + 1
    /\ UNCHANGED <<hivemind, nebula, wake, eda_raw, eda_norm, sample, reads,
                   closeCalls, termReturned, zeroDivLogs, falls, lateTicks, startShape, now, harness>>

(* line 149: eda_raw = [self.eda.read(1)[0][-4]] *)
DancerReadEda ==
    /\ dpc = "read_eda"
    /\ \E row \in Rows : sample' = row /\ eda_raw' = <<PyIndex(row, -4)>>
    /\ reads' = reads + 1
    /\ lateTicks' = lateTicks + Late
    /\ dpc' = "raw_append"
    /\ UNCHANGED <<hivemind, nebula, wake, eda_norm, closeCalls, termReturned,
                   zeroDivLogs, falls, ticks, startShape, now,
                   harness>>

(* lines 153-155 *)
DancerRawAppend ==
    /\ dpc = "raw_append"
    /\ eda_buffer_raw' = NpAppend(eda_buffer_raw, eda_raw)
    /\ dpc' = "raw_delete"
    /\ UNCHANGED <<running, eda_buffer, current_dancer_x_y,
                   current_dancer_x_y_z, current_dancer_rnd, nebula, wake,
                   eda_raw, eda_norm, sample, history, now, harness>>

(* lines 156-157 *)
DancerRawDelete ==
    /\ dpc = "raw_delete"
    /\ eda_buffer_raw' = NpDelete0(eda_buffer_raw)
    /\ dpc' = "normalise"
    /\ UNCHANGED <<running, eda_buffer, current_dancer_x_y,
                   current_dancer_x_y_z, current_dancer_rnd, nebula, wake,
                   eda_raw, eda_norm, sample, history, now, harness>>

DancerNormaliseStale ==
    /\ dpc = "normalise"
    /\ eda_norm' = EdaNorm(<<eda_buffer_raw[1]>> \o SubSeq(eda_buffer_raw, 1, Len(eda_buffer_raw) - 1))
    /\ zeroDivLogs' = zeroDivLogs + (IF EdaZeroDiv(eda_buffer_raw) THEN 1 ELSE 0)
    /\ dpc' = "norm_append"
    /\ UNCHANGED <<hivemind, nebula, wake, eda_raw, sample, reads, closeCalls,
                   termReturned, falls, ticks, lateTicks, startShape,
                   now, harness>>

(* lines 160-168 *)
DancerNormalise ==
    /\ dpc = "normalise"
    /\ eda_norm' = EdaNorm(eda_buffer_raw)
    /\ zeroDivLogs' = zeroDivLogs + (IF EdaZeroDiv(eda_buffer_raw) THEN 1 ELSE 0)
    /\ dpc' = "norm_append"
    /\ UNCHANGED <<hivemind, nebula, wake, eda_raw, sample, reads, closeCalls,
                   termReturned, falls, ticks, lateTicks, startShape,
                   now, harness>>

(* lines 171-173 *)
DancerNormAppend ==
    /\ dpc = "norm_append"
    /\ eda_buffer' = NpAppend(eda_buffer, eda_norm)
    /\ dpc' = "norm_delete"
    /\ UNCHANGED <<running, eda_buffer_raw, current_dancer_x_y,
                   current_dancer_x_y_z, current_dancer_rnd, nebula, wake,
                   eda_raw, eda_norm, sample, history, now, harness>>

(* lines 174-175 *)
DancerNormDelete ==
    /\ dpc = "norm_delete"
    /\ eda_buffer' = NpDelete0(eda_buffer)
    /\ dpc' = "xyz"
    /\ UNCHANGED <<running, eda_buffer_raw, current_dancer_x_y,
                   current_dancer_x_y_z, current_dancer_rnd, nebula, wake,
                   eda_raw, eda_norm, sample, history, now, harness>>

(* lines 183-185: (raw - lo) / (hi - lo) * (1 - 0) + 0 *)
ExtentNorm(v, extents) == RatDiv(RatOf(v - extents[1]), RatOf(extents[2] - extents[1]))

(* lines 182-196.  dancer_xyz_raw is a list holding one element, the slice
   [-1:-4] of the row; line 184 indexes it at 1, which raises IndexError
   and ends the thread.  The statements after it are given for a list
   that could be indexed. *)
DancerXYZ ==
    /\ dpc = "xyz"
    /\ reads' = reads + 1
    /\ \E row \in Rows, k \in 1..3 :
          LET dancer_xyz_raw == <<PySlice(row, -1, -4)>>
          IN  IF Len(dancer_xyz_raw) < 3
              THEN /\ sample' = row
                   /\ dpc' = "crashed"
                   /\ UNCHANGED hivemind
              ELSE LET norm_xyz == <<Clip01(ExtentNorm(dancer_xyz_raw[1], dancer_x_extents)),
                                     Clip01(ExtentNorm(dancer_xyz_raw[2], dancer_y_extents)),
                                     Clip01(ExtentNorm(dancer_xyz_raw[3], dancer_z_extents))>>
                   IN  /\ sample' = row
                       /\ current_dancer_x_y_z' = norm_xyz
                       /\ current_dancer_x_y' =
                             NpDelete0(NpAppend(current_dancer_x_y, SubSeq(norm_xyz, 1, 2)))
                       /\ current_dancer_rnd' = norm_xyz[k]
                       /\ dpc' = "sleep"
                       /\ UNCHANGED <<running, eda_buffer_raw, eda_buffer>>
    /\ UNCHANGED <<nebula, wake, eda_raw, eda_norm, closeCalls, termReturned,
                   zeroDivLogs, falls, ticks, lateTicks, startShape,
                   now, harness>>

(* line 202: self.hivemind.eda_buffer = np.random.uniform(size=(1, 50)) *)
DancerSynEda ==
    /\ dpc = "syn_eda"
    /\ \E v \in UnitVals : eda_buffer' = Filled(SynthCols, <<v>>)
    /\ lateTicks' = lateTicks + Late
    /\ dpc' = "syn_append"
    /\ UNCHANGED <<running, eda_buffer_raw, current_dancer_x_y,
                   current_dancer_x_y_z, current_dancer_rnd, nebula, wake,
                   eda_raw, eda_norm, sample, reads, closeCalls, termReturned,
                   zeroDivLogs, falls, ticks, startShape, now,
                   harness>>

(* lines 205-208 *)
DancerSynAppend ==
    /\ dpc = "syn_append"
    /\ \E x \in UnitVals, y \in UnitVals :
          current_dancer_x_y' = NpAppend(current_dancer_x_y, <<x, y>>)
    /\ dpc' = "syn_delete"
    /\ UNCHANGED <<running, eda_buffer_raw, eda_buffer, current_dancer_x_y_z,
                   current_dancer_rnd, nebula, wake, eda_raw, eda_norm, sample,
                   history, now, harness>>

(* line 209 *)
DancerSynDelete ==
    /\ dpc = "syn_delete"
    /\ current_dancer_x_y' = NpDelete0(current_dancer_x_y)
    /\ dpc' = "sleep"
    /\ UNCHANGED <<running, eda_buffer_raw, eda_buffer, current_dancer_x_y_z,
                   current_dancer_rnd, nebula, wake, eda_raw, eda_norm, sample,
                   history, now, harness>>

(* line 211: sleep(0.1) is called ... *)
DancerSleep ==
    /\ dpc = "sleep"
    /\ wake' = now + PacingInterval
    /\ dpc' = "sleeping"
    /\ UNCHANGED <<hivemind, nebula, eda_raw, eda_norm, sample, history, now,
                   harness>>

(* ... and returns no earlier than 0.1 s later *)
DancerWake ==
    /\ dpc = "sleeping"
    /\ now >= wake
    /\ dpc' = "while"
    /\ UNCHANGED <<hivemind, nebula, wake, eda_raw, eda_norm, sample, history, now, harness>>

(* line 213: self.hivemind.running = False *)
DancerExit ==
    /\ dpc = "exit"
    /\ running' = FALSE
    /\ falls' = falls + (IF running THEN 1 ELSE 0)
    /\ dpc' = "stopped"
    /\ UNCHANGED <<data, nebula, wake, eda_raw, eda_norm, sample, reads, closeCalls,
                   termReturned, zeroDivLogs, ticks, lateTicks,
                   startShape, now, harness>>

dancer_input ==
    \/ DancerWhile \/ DancerDeadline
    \/ DancerReadEda \/ DancerRawAppend \/ DancerRawDelete \/ DancerNormalise
    \/ DancerNormAppend \/ DancerNormDelete \/ DancerXYZ
    \/ DancerSynEda \/ DancerSynAppend \/ DancerSynDelete
    \/ DancerSleep \/ DancerWake \/ DancerExit

---------------------------------------------------------------------------
(* terminate, and the other parties *)

terminateWiping ==
    /\ npc = "built"
    /\ termReturned < MaxTerminate
    /\ IF BITALINO_CONNECTED
       THEN eda' = "closed" /\ closeCalls' = closeCalls + 1
       ELSE UNCHANGED <<eda, closeCalls>>
    /\ current_dancer_rnd' = One
    /\ termReturned' = termReturned + 1
    /\ UNCHANGED <<running, eda_buffer_raw, eda_buffer, current_dancer_x_y,
                   current_dancer_x_y_z, BITALINO_CONNECTED, endtime, npc,
                   retries, thread, reads, zeroDivLogs, falls, ticks,
                   lateTicks, startShape, now, harness>>

(* lines 219-220 *)
terminate ==
    /\ npc = "built"
    /\ termReturned < MaxTerminate
    /\ IF BITALINO_CONNECTED
       THEN eda' = "closed" /\ closeCalls' = closeCalls + 1
       ELSE UNCHANGED <<eda, closeCalls>>
    /\ termReturned' = termReturned + 1
    /\ UNCHANGED <<hivemind, BITALINO_CONNECTED, endtime, npc, retries, thread,
                   reads, zeroDivLogs, falls, ticks, lateTicks,
                   startShape, now, harness>>

(* Another party (a sibling loop) clears the shared flag. *)
ExternalStop ==
    /\ dpc # "idle"
    /\ running
    /\ running' = FALSE
    /\ falls' = falls + 1
    /\ UNCHANGED <<data, nebula, thread, reads, closeCalls, termReturned,
                   zeroDivLogs, ticks, lateTicks, startShape, now,
                   harness>>

MainNext ==
    \/ ConnectOk
    \/ \E retry \in BOOLEAN : ConnectFail(retry)
    \/ \E indexable \in BOOLEAN : StartAdapter(indexable)
    \/ \E d \in 0..MaxDuration : SetEndtime(d)
    \/ main_loop
    \/ Tock
    \/ dancer_input
    \/ terminate
    \/ ExternalStop

Next == MainNext

Spec == Init /\ [][Next]_vars

(* The thread scheduler runs a started thread that can take a step, and
   time passes.  Calls made by the caller (terminate, the deadline
   assignment) and by other parties are not guaranteed. *)
ThreadStepsButNormalise ==
    \/ DancerWhile \/ DancerDeadline
    \/ DancerReadEda \/ DancerRawAppend \/ DancerRawDelete
    \/ DancerNormAppend \/ DancerNormDelete \/ DancerXYZ
    \/ DancerSynEda \/ DancerSynAppend \/ DancerSynDelete
    \/ DancerSleep \/ DancerWake \/ DancerExit

(* DancerNormalise is enabled exactly when dpc = "normalise" and always
   leaves that position, so its weak fairness is written as "the thread
   does not stay at that position for ever". *)
FairSpec ==
    /\ Spec
    /\ WF_vars(Tock)
    /\ WF_vars(ThreadStepsButNormalise)
    /\ []<>(dpc # "normalise")

---------------------------------------------------------------------------
(* The rolling-buffer step and the scaler on their own: the inputs are drawn
   from bounded sets, the step under test is applied to them. *)

RollInit ==
    /\ MainInit
    /\ \E w \in 1..MaxRollWidth : rb = [w |-> w, buf |-> Filled(w, <<0>>), ins |-> <<>>]
    /\ sc = [in |-> 0, mins |-> 0, maxs |-> 1, out |-> <<>>]
    /\ loops = NoLoops
    /\ dt = NoWindow
    /\ bot = NoBot

(* the k-th arrival is k or 0 *)
RollStep ==
    /\ Len(rb.ins) < MaxAppends
    /\ \E v \in {0, Len(rb.ins) + 1} :
          rb' = [rb EXCEPT !.buf = RollingAppend(@, <<v>>), !.ins = Append(@, v)]
    /\ UNCHANGED <<mainVars, sc, loops, dt, bot>>

SpecRoll == RollInit /\ [][RollStep]_vars

ScalerInit ==
    /\ MainInit
    /\ rb = [w |-> 0, buf |-> <<>>, ins |-> <<>>]
    /\ \E x \in -MaxAbs..MaxAbs, lo \in -MaxAbs..MaxAbs, hi \in -MaxAbs..MaxAbs :
          sc = [in |-> x, mins |-> lo, maxs |-> hi, out |-> <<>>]
    /\ loops = NoLoops
    /\ dt = NoWindow
    /\ bot = NoBot

ScalerStep ==
    /\ sc.out = <<>>
    /\ sc' = [sc EXCEPT !.out = scaler(<<RatOf(sc.in)>>, <<RatOf(sc.mins)>>, <<RatOf(sc.maxs)>>)]
    /\ UNCHANGED <<mainVars, rb, loops, dt, bot>>

SpecScaler == ScalerInit /\ [][ScalerStep]_vars

----------------------------------------------------------------------------
(* Lines 160-168 on one window of one channel: a line of slope a and offset
   b with a 0/1 disturbance e added to each sample. *)

Window(w, a, b, e) == [i \in 1..w |-> a * (i - 1) + b + e[i]]
AsBuffer(win) == [i \in 1..Len(win) |-> <<win[i]>>]

DetrendInit ==
    /\ MainInit
    /\ rb = [w |-> 0, buf |-> <<>>, ins |-> <<>>]
    /\ sc = [in |-> 0, mins |-> 0, maxs |-> 1, out |-> <<>>]
    /\ loops = NoLoops
    /\ bot = NoBot
    /\ \E w \in 2..MaxRollWidth, a \in -MaxAbs..MaxAbs, b \in -MaxAbs..MaxAbs :
          \E e \in [1..w -> {0, 1}] :
             dt = [in |-> Window(w, a, b, e), out |-> <<>>, norm |-> <<>>]

DetrendStep ==
    /\ dt.out = <<>>
    /\ dt' = [dt EXCEPT !.out = detrend(AsBuffer(dt.in))[1],
                        !.norm = EdaNorm(AsBuffer(dt.in))]
    /\ UNCHANGED <<mainVars, rb, sc, loops, bot>>

SpecDetrend == DetrendInit /\ [][DetrendStep]_vars

----------------------------------------------------------------------------
(* Drawbot (src/modules/drawbot.py): one call of one method on an arm whose
   pose is given.  bot.cmds are the commands passed to _set_ptp_cmd. *)

draw_position == <<250, 0, 0, 0>>
x_extents == <<160, 350>>
y_extents == <<-150, 150>>
z_extents == <<draw_position[3], 150>>

(* poses at and next to the limits of the extents; sizes whose halves and
   quarters are whole numbers *)
Poses == {<<x, y, z>> : x \in {x_extents[1], x_extents[1] + 1, x_extents[2] - 1, x_extents[2]},
                        y \in {y_extents[1], 0, y_extents[2]},
                        z \in {z_extents[1], z_extents[2]}}
Deltas == -MaxAbs..MaxAbs
Sizes == {4, 8}
Chars == {"A", "a", "E", "e", "F", "f", "Z", "z", "Q", "1", ""}

PtpCmd(mode, x, y, z, r) == [mode |-> mode, x |-> x, y |-> y, z |-> z, r |-> r]

(* lines 300-306 *)
go_draw(v) == PtpCmd("MOVJ_XYZ", v[1], v[2], 0, 0)
go_draw_up(v) == PtpCmd("JUMP_XYZ", v[1], v[2], draw_position[3], 0)

BotCalls ==
    {[call |-> "position_move_by", args |-> <<x, y, z>>] : x \in Deltas, y \in Deltas, z \in Deltas}
    \cup {[call |-> "joint_move_to", args |-> <<0, 0, 0, 0>>]}
    \cup {[call |-> "draw_triangle", args |-> <<size>>] : size \in Sizes}
    \cup {[call |-> "draw_char", args |-> <<c, size>>] : c \in Chars, size \in Sizes}

DrawbotInit ==
    /\ MainInit
    /\ rb = [w |-> 0, buf |-> <<>>, ins |-> <<>>]
    /\ sc = [in |-> 0, mins |-> 0, maxs |-> 1, out |-> <<>>]
    /\ loops = NoLoops
    /\ dt = NoWindow
    /\ \E pose \in Poses, c \in BotCalls :
          bot = [NoBot EXCEPT !.pose = pose, !.call = c.call, !.args = c.args, !.at = "called"]

BotUnchanged == UNCHANGED <<mainVars, rb, sc, loops, dt>>

(* lines 340, 343, 346: the test of one axis *)
OutsideBelowOnly(v, extents) == v < extents[1]
Outside(v, extents) == v < extents[1] \/ v > extents[2]

(* lines 333-350 *)
position_move_by ==
    /\ bot.call = "position_move_by" /\ bot.at = "called"
    /\ LET pose == bot.pose
           newPose == <<pose[1] + bot.args[1], pose[2] + bot.args[2], pose[3] + bot.args[3]>>
           x == IF Outside(newPose[1], x_extents) THEN 0 ELSE bot.args[1]
           y == IF Outside(newPose[2], y_extents) THEN 0 ELSE bot.args[2]
           z == IF Outside(newPose[3], z_extents) THEN 0 ELSE bot.args[3]
       IN  bot' = [bot EXCEPT !.cmds = Append(@, PtpCmd("MOVJ_XYZ_INC", x, y, z, 0)),
                              !.at = "returned"]
    /\ BotUnchanged

(* lines 249-251: the method calls itself; each call is one more frame
   until the interpreter raises RecursionError *)
joint_move_to ==
    /\ bot.call = "joint_move_to" /\ bot.at = "called"
    /\ bot' = IF bot.depth < MaxDepth
              THEN [bot EXCEPT !.depth = @ + 1]
              ELSE [bot EXCEPT !.at = "raised"]
    /\ BotUnchanged

(* world positions of the vertices, lines 411-415 and 588-591 *)
Vertices(pos, local_pos) ==
    [i \in 1..Len(local_pos) |-> <<pos[1] + local_pos[i][1], pos[2] + local_pos[i][2]>>]

(* lines 420-423: shape_interrupt is assigned in draw_triangle (line 423)
   and so is a local name of the function; it has no value when line 420
   reads it *)
ShapeInterruptBound == FALSE

(* lines 398-412 *)
TriangleLocalPos(rand_type, size) ==
    IF rand_type = 0
    THEN << <<0, 0>>, <<-size, 0>>, <<-size, size>> >>
    ELSE << <<0, 0>>, <<-size * 2, -(size \div 2)>>, <<-size * 2, size \div 2>> >>

(* lines 392-429 *)
draw_triangle ==
    /\ bot.call = "draw_triangle" /\ bot.at = "called"
    /\ \E rand_type \in {0, 1} :
          LET pos == SubSeq(bot.pose, 1, 2)
              triangle == Vertices(pos, TriangleLocalPos(rand_type, bot.args[1]))
          IN  IF ~ShapeInterruptBound
              THEN bot' = [bot EXCEPT !.at = "raised"]
              ELSE bot' = [bot EXCEPT
                             !.cmds = @ \o [i \in 1..3 |-> go_draw(triangle[i])] \o <<go_draw(pos)>>,
                             !.triangles = Append(@, triangle),
                             !.at = "returned"]
    /\ BotUnchanged

(* line 521: _char.upper() *)
Upper(c) ==
    CASE c = "a" -> "A" [] c = "e" -> "E" [] c = "f" -> "F" [] c = "z" -> "Z" [] OTHER -> c

(* lines 526-585, the characters drawn with straight lines *)
CharLocalPos(c, size) ==
    CASE c \in {"A", "a"} ->
           << <<0, 0>>, <<size * 2, -(size \div 2)>>, <<0, -size>>,
              <<size, -((size * 3) \div 4)>>, <<size, -(size \div 4)>> >>
      [] c \in {"E", "e"} ->
           << <<0, 0>>, <<0, size>>, <<size * 2, size>>, <<size * 2, 0>>,
              <<size, 0>>, <<size, size>> >>
      [] c \in {"F", "f"} ->
           << <<0, 0>>, <<size * 2, 0>>, <<size * 2, -(size \div 2)>>,
              <<size, -(size \div 2)>>, <<size, 0>> >>
      [] c \in {"Z", "z"} ->
           << <<0, 0>>, <<0, size>>, <<size * 2, 0>>, <<size * 2, size>> >>
      [] OTHER -> <<>>

(* lines 523, 556, 567: the index of the vertex reached with the pen up *)
JumpAlways(c) == 0
jump_num(c) ==
    CASE c \in {"E", "e"} -> 4
      [] c \in {"F", "f"} -> 3
      [] OTHER -> -1

StraightChars == {"A", "a", "E", "e", "F", "f", "Z", "z"}

(* lines 514-608, for the characters that draw_char draws itself or
   rejects *)
draw_char ==
    /\ bot.call = "draw_char" /\ bot.at = "called"
    /\ LET c == bot.args[1]
           pos == SubSeq(bot.pose, 1, 2)
           v == Vertices(pos, CharLocalPos(c, bot.args[2]))
           cmd(i) == IF jump_num(c) # -1 /\ i - 1 = jump_num(c)
                     THEN go_draw_up(v[i]) ELSE go_draw(v[i])
       IN  IF c \notin StraightChars
           THEN bot' = [bot EXCEPT !.at = "returned"]
           ELSE bot' = [bot EXCEPT
                          !.cmds = @ \o [i \in 1..Len(v) |-> cmd(i)],
                          !.chars = Append(@, <<Upper(c)>> \o v),
                          !.at = "returned"]
    /\ BotUnchanged

DrawbotNext == position_move_by \/ joint_move_to \/ draw_triangle \/ draw_char

SpecDrawbot == DrawbotInit /\ [][DrawbotNext]_vars

----------------------------------------------------------------------------
(* Several calls of main_loop() on one Nebula object, in synthetic mode and
   with the deadline assigned.  main_loop keeps no thread handle and tests
   nothing before it starts a thread, so every call starts one more
   dancer_input thread on the same hivemind.  Each thread runs the loop of
   lines 138-213; the pause of line 211 is a step that can take any time. *)

LoopsInit ==
    /\ MainInit
    /\ ~BITALINO_CONNECTED
    /\ rb = [w |-> 0, buf |-> <<>>, ins |-> <<>>]
    /\ sc = [in |-> 0, mins |-> 0, maxs |-> 1, out |-> <<>>]
    /\ loops = NoLoops
    /\ dt = NoWindow
    /\ bot = NoBot

LoopsUnchanged ==
    UNCHANGED <<eda_buffer_raw, current_dancer_x_y_z, current_dancer_rnd,
                nebula, thread, history, rb, sc, dt, bot>>

(* the caller assigns the deadline before the loops are started *)
LoopsSetEndtime ==
    /\ endtime = None
    /\ loops = NoLoops
    /\ \E d \in 1..MaxDuration : endtime' = now + d
    /\ UNCHANGED <<hivemind, BITALINO_CONNECTED, eda, npc, retries, thread,
                   history, now, harness>>

(* lines 119-132, t3 *)
LoopsMainLoop ==
    /\ endtime # None
    /\ \E t \in 1..MaxCalls :
          /\ loops[t] = "unstarted"
          /\ \A u \in 1..(t - 1) : loops[u] # "unstarted"
          /\ loops' = [loops EXCEPT ![t] = "while"]
    /\ UNCHANGED <<mainVars, rb, sc, dt, bot>>

LoopsTock ==
    /\ endtime # None
    /\ now < MaxTime
    /\ now' = now + 1
    /\ UNCHANGED <<hivemind, nebula, thread, history, harness>>

(* lines 138-142 *)
LoopsWhile(t) ==
    /\ loops[t] = "while"
    /\ loops' = [loops EXCEPT ![t] =
                    IF ~running \/ DeadlineReached(now, endtime) THEN "exit" ELSE "syn_eda"]
    /\ UNCHANGED <<mainVars, rb, sc, dt, bot>>

(* line 202 *)
LoopsSynEda(t) ==
    /\ loops[t] = "syn_eda"
    /\ \E v \in UnitVals : eda_buffer' = Filled(SynthCols, <<v>>)
    /\ loops' = [loops EXCEPT ![t] = "syn_append"]
    /\ UNCHANGED <<running, current_dancer_x_y, now>>
    /\ LoopsUnchanged

(* lines 205-208 *)
LoopsSynAppend(t) ==
    /\ loops[t] = "syn_append"
    /\ \E x \in UnitVals, y \in UnitVals :
          current_dancer_x_y' = NpAppend(current_dancer_x_y, <<x, y>>)
    /\ loops' = [loops EXCEPT ![t] = "syn_delete"]
    /\ UNCHANGED <<running, eda_buffer, now>>
    /\ LoopsUnchanged

(* line 209 *)
LoopsSynDelete(t) ==
    /\ loops[t] = "syn_delete"
    /\ current_dancer_x_y' = NpDelete0(current_dancer_x_y)
    /\ loops' = [loops EXCEPT ![t] = "sleep"]
    /\ UNCHANGED <<running, eda_buffer, now>>
    /\ LoopsUnchanged

(* line 211 *)
LoopsSleep(t) ==
    /\ loops[t] = "sleep"
    /\ loops' = [loops EXCEPT ![t] = "while"]
    /\ UNCHANGED <<mainVars, rb, sc, dt, bot>>

(* line 213 *)
LoopsExit(t) ==
    /\ loops[t] = "exit"
    /\ running' = FALSE
    /\ loops' = [loops EXCEPT ![t] = "stopped"]
    /\ UNCHANGED <<eda_buffer, current_dancer_x_y, now>>
    /\ LoopsUnchanged

LoopsThread(t) ==
    \/ LoopsWhile(t) \/ LoopsSynEda(t) \/ LoopsSynAppend(t)
    \/ LoopsSynDelete(t) \/ LoopsSleep(t) \/ LoopsExit(t)

LoopsNext ==
    \/ LoopsSetEndtime
    \/ LoopsMainLoop
    \/ LoopsTock
    \/ \E t \in 1..MaxCalls : LoopsThread(t)

SpecLoops == LoopsInit /\ [][LoopsNext]_vars

---------------------------------------------------------------------------
(* Properties *)

Ended == {"stopped", "crashed"}
TickBody == {"read_eda", "raw_append", "raw_delete", "normalise", "norm_append",
             "norm_delete", "xyz", "syn_eda", "syn_append", "syn_delete", "sleep"}
TickBoundary == {"while", "deadline", "sleep", "sleeping", "exit", "stopped", "crashed"}
DeadlineElapsed == endtime # None /\ now >= endtime

(* C1: in every execution running goes from true to false exactly once and
   never from false to true: it never falls twice, it never rises, and when
   the ingestion loop has ended it has fallen. *)
C1_RunningFallsExactlyOnce ==
    /\ [][running' => running]_vars
    /\ [](falls <= 1)
    /\ [](dpc \in Ended => (~running /\ falls = 1))

(* One step of C2: at the top of every iteration the loop checks the flag
   and the deadline; when the flag is false or the deadline is reached it reads no
   sample and writes no shared data, goes to its exit, and running is false
   once it has stopped.  A tick is entered only through both checks. *)
C2_Step ==
    /\ (dpc = "while" /\ ~running /\ dpc' # dpc) => dpc' = "exit"
    /\ (dpc = "deadline" /\ DeadlineElapsed /\ dpc' # dpc) => dpc' = "exit"
    /\ (dpc' = "deadline" /\ dpc # "deadline") => (dpc = "while" /\ running)
    /\ (dpc' \in TickBody /\ dpc \notin TickBody) => (dpc = "deadline" /\ now < endtime)
    /\ (dpc \in {"while", "deadline", "exit", "stopped"}) => (reads' = reads /\ data' = data)
    /\ (dpc = "exit" /\ dpc' # dpc) => (dpc' = "stopped" /\ ~running')
    /\ (dpc = "stopped") => (dpc' = "stopped" /\ ~running /\ ~running')
(* C2, as a property of every step: the checks at the top of the loop
   decide, and a loop that sees its stop condition stops. *)
C2_TopOfLoopCheck == [][C2_Step]_vars
C2_Witness ==
    /\ dpc = "stopped"
    /\ ~running
    /\ falls = 1
    /\ ticks >= 1
    /\ DeadlineElapsed

(* C3: once the deadline has elapsed or running was cleared by another
   party the loop starts at most one further tick and then stops with
   running false; with a deadline of two pacing intervals it runs at most
   three ticks. *)
C3_StopsWithinOneTick ==
    /\ lateTicks <= 1
    /\ (endtime = 2 * PacingInterval => ticks <= 3)
    /\ (dpc \in Ended /\ DeadlineElapsed) => ~running

(* C4: after a call of terminate() has returned, running is false. *)
C4_TerminateClearsRunning == termReturned > 0 => ~running

(* C5: terminate() is idempotent and the adapter connection is closed
   exactly once in total, however many calls are made. *)
C5_ClosedExactlyOnce ==
    (BITALINO_CONNECTED /\ termReturned > 0) => (eda = "closed" /\ closeCalls = 1)

(* C6: after terminate() has returned no loop runs another iteration: no
   adapter read, no write of the shared data, no new tick. *)
C6_NoIterationAfterTerminate ==
    [][termReturned > 0 => (reads' = reads /\ data' = data /\ ticks' = ticks)]_vars

(* C7: at every point at which a concurrent reader may read them, the three
   shared buffers have their fixed shape: no reader sees W+1 columns. *)
C7_NoTornBuffer == dpc # "idle" => Shapes = startShape

(* C8: the append step keeps the width, and after k >= W appends the buffer
   holds exactly the last W appended columns, oldest on the left; width 5
   and inputs 1..6 give [2,3,4,5,6]. *)
C8_LastWInputs ==
    /\ Width(rb.buf) = rb.w
    /\ Len(rb.ins) >= rb.w =>
          rb.buf = [i \in 1..rb.w |-> <<rb.ins[Len(rb.ins) - rb.w + i]>>]
    /\ (rb.w = 5 /\ rb.ins = <<1, 2, 3, 4, 5, 6>>) =>
          rb.buf = <<<<2>>, <<3>>, <<4>>, <<5>>, <<6>>>>
C8_Witness == rb.w = 5 /\ rb.ins = <<1, 2, 3, 4, 5, 6>>

(* C9: at every tick boundary, in both modes, each shared buffer has the
   width and the channel count it had when the loop started. *)
C9_ShapeKept == dpc \in TickBoundary => Shapes = startShape
C9_Witness ==
    /\ ~BITALINO_CONNECTED
    /\ dpc = "sleeping"
    /\ ticks >= 2
    /\ eda_buffer = Filled(SynthCols, <<<<1, 2>>>>)
    /\ current_dancer_x_y[BufWidth] = <<<<1, 2>>, <<1, 2>>>>

(* C10: for a range max - min that is not zero the scaler's value lies in
   [0, 1], for inputs below the min and above the max as well. *)
C10_ScalerInUnit ==
    (sc.out # <<>> /\ sc.maxs # sc.mins) => (Len(sc.out) = 1 /\ InUnit(sc.out[1]))
C10_Witness ==
    /\ sc.out = <<Zero>>
    /\ sc.in < sc.mins
    /\ sc.mins < sc.maxs

(* C11 as stated: with a zero range the scaler returns the raw input
   unchanged and unclipped (3 stays 3). *)
C11_FallbackUnclipped ==
    (sc.out # <<>> /\ sc.maxs = sc.mins) => sc.out = <<RatOf(sc.in)>>

(* C11, amended: with a zero range the scaler does not fail and returns its
   input clipped to [0, 1] (input 3 with min = max = 0 gives 1); in the
   loop the input is the detrended newest sample, so a window of five 3s
   gives 0. *)
C11_FallbackClipped ==
    /\ (sc.out # <<>> /\ sc.maxs = sc.mins) =>
          sc.out = <<IF sc.in <= 0 THEN Zero ELSE IF sc.in >= 1 THEN One ELSE RatOf(sc.in)>>
    /\ EdaZeroDiv(Filled(5, <<3>>))
    /\ EdaNorm(Filled(5, <<3>>)) = <<Zero>>
C11_Witness == sc.in = 3 /\ sc.mins = 0 /\ sc.maxs = 0 /\ sc.out = <<One>>

(* C12: when a step of a tick fails the loop stops with running false and
   the adapter released: the loop is never dead with running still true. *)
C12_FailureStopsCleanly ==
    dpc = "crashed" => (~running /\ (BITALINO_CONNECTED => eda = "closed"))

(* C13: when the adapter could not be connected and the user declined,
   construction ends in synthetic mode (or a clean exit): it never goes on
   to call start or read on an adapter that was not connected. *)
C13_DeclineEndsCleanly ==
    (eda = "none" /\ npc \in {"built", "failed"}) => (npc = "built" /\ ~BITALINO_CONNECTED)

(* C14: the deadline is assigned before any loop started by main_loop
   checks it, and never changes afterwards; no loop compares the time with
   an unset deadline. *)
C14_DeadlineSetBeforeLoops ==
    /\ [](dpc # "idle" => endtime # None)
    /\ [][endtime # None => endtime' = endtime]_vars

(* C15: in hardware mode each tick makes exactly one read call on the
   adapter (the constructor made one before the loop). *)
C15_OneReadPerTick ==
    (BITALINO_CONNECTED /\ npc = "built") => reads <= 1 + ticks

(* C16: a synthetic tick does what a hardware tick does on a synthesized
   sample; in particular it publishes the feature triple, whose first two
   components are the newest column of the x/y history. *)
C16_SyntheticSamePipeline ==
    (~BITALINO_CONNECTED /\ ticks >= 1 /\ dpc \in {"sleep", "sleeping"}) =>
        SubSeq(current_dancer_x_y_z, 1, 2) = current_dancer_x_y[Width(current_dancer_x_y)]

(* C17: every hardware tick completes, and after it the published triple
   lies in [0,1], the published scalar is one of its components and the
   newest x/y column is its first two components. *)
C17_PublishedVector ==
    (BITALINO_CONNECTED /\ ticks >= 1 /\ dpc \notin (TickBody \ {"sleep"})) =>
        /\ dpc # "crashed"
        /\ \A i \in 1..3 : InUnit(current_dancer_x_y_z[i])
        /\ \E i \in 1..3 : current_dancer_rnd = current_dancer_x_y_z[i]
        /\ current_dancer_x_y[Width(current_dancer_x_y)] = SubSeq(current_dancer_x_y_z, 1, 2)

(* C18: from a row of the adapter the loop takes the EDA value from the
   last column and the position triple from the three columns before it. *)
C18_ColumnConvention ==
    /\ dpc = "raw_append" => eda_raw = <<sample[Len(sample)]>>
    /\ (BITALINO_CONNECTED /\ sample # <<>>) =>
          PySlice(sample, -1, -4) = SubSeq(sample, Len(sample) - 3, Len(sample) - 1)

(* C19: the shared data fields are written by the ingestion loop only, so
   at no time are there two writers of the same field: at most one thread
   is inside the update of the x/y history. *)
XYWriters == {t \in 1..MaxCalls : loops[t] \in {"syn_append", "syn_delete"}}
C19_SingleWriter == Cardinality(XYWriters) <= 1

(* C20: once the ingestion loop has stopped, on whatever path, the adapter
   connection it used is eventually closed. *)
C20_EventuallyClosed ==
    (BITALINO_CONNECTED /\ dpc \in Ended) ~> (eda = "closed")

(* C21: the ingestion loop of one Nebula object is started at most once,
   and a loop that has stopped stays stopped. *)
Started == {t \in 1..MaxCalls : loops[t] # "unstarted"}
C21_RunsOnce ==
    /\ [](Cardinality(Started) <= 1)
    /\ [][\A t \in 1..MaxCalls : loops[t] = "stopped" => loops'[t] = "stopped"]_vars

(* C22: a tick whose normalizer took the zero-range fallback logged it, and
   the loop goes on to the next tick: it is never dead after a fallback. *)
C22_FallbackLoggedLoopGoesOn ==
    (BITALINO_CONNECTED /\ zeroDivLogs >= 1) => dpc # "crashed"

(* C23: the residual of detrending a perfectly linear ramp is the same at
   every sample of the window, for every slope and offset. *)
IsRamp(w) == \A i \in 2..(Len(w) - 1) : w[i + 1] - w[i] = w[2] - w[1]
C23_RampResidualConstant ==
    (dt.out # <<>> /\ IsRamp(dt.in)) =>
        \A i \in 1..Len(dt.out) : dt.out[i] = dt.out[1]
C23_Witness ==
    dt.in = <<-1, 1, 3, 5>> /\ dt.out = <<Zero, Zero, Zero, Zero>>

(* C27: the column appended to the normalized buffer in a hardware tick is
   computed from the raw buffer whose newest column is the sample read in
   that same tick. *)
C27_NormalisedAfterRawAppend ==
    dpc \in {"norm_append", "norm_delete"} =>
        /\ eda_buffer_raw[Width(eda_buffer_raw)] = eda_raw
        /\ eda_norm = EdaNorm(eda_buffer_raw)
        /\ dpc = "norm_delete" => eda_buffer[Width(eda_buffer)] = eda_norm
C27_Witness ==
    /\ dpc = "norm_delete"
    /\ eda_raw = <<1>>
    /\ eda_buffer[Width(eda_buffer)] = <<One>>

(* C28: for a window whose detrended samples are not all equal, the
   normalized newest sample is at least 0.05/1.05 (so greater than 0), and
   it is 1 exactly when the newest detrended sample is the window maximum. *)
C28_MarginKeepsAboveZero ==
    (dt.out # <<>> /\ RatMaxOf(dt.out, Len(dt.out)) # RatMinOf(dt.out, Len(dt.out))) =>
        /\ RatLeq(<<1, 21>>, dt.norm[1])
        /\ dt.norm[1] # Zero
        /\ dt.norm[1] = One <=> dt.out[Len(dt.out)] = RatMaxOf(dt.out, Len(dt.out))
C28_Witness ==
    /\ dt.in = <<0, 1, 0>>
    /\ dt.out # <<>>
    /\ dt.out[3] = RatMinOf(dt.out, 3)
    /\ dt.norm = <<(<<1, 21>>)>>

(* C30: BITALINO_CONNECTED never changes after the constructor set it, so
   hardware steps run only with it true and synthetic steps only with it
   false. *)
HardwareSteps == {"read_eda", "raw_append", "raw_delete", "normalise",
                  "norm_append", "norm_delete", "xyz"}
SyntheticSteps == {"syn_eda", "syn_append", "syn_delete"}
C30_ModeFixed ==
    /\ [][BITALINO_CONNECTED' = BITALINO_CONNECTED]_vars
    /\ [](dpc \in HardwareSteps => BITALINO_CONNECTED)
    /\ [](dpc \in SyntheticSteps => ~BITALINO_CONNECTED)
C30_Witness ==
    /\ ~BITALINO_CONNECTED
    /\ ticks >= 2
    /\ termReturned >= 1
    /\ dpc \in SyntheticSteps

(* C24: position_move_by from a pose inside the extents commands a position
   inside the extents on every axis; a delta that would leave the extents
   on an axis is sent as 0 and the other deltas are sent as given. *)
InExtents(v, extents) == extents[1] <= v /\ v <= extents[2]
C24_MoveStaysInExtents ==
    (bot.call = "position_move_by" /\ bot.at = "returned") =>
        /\ Len(bot.cmds) = 1
        /\ LET c == bot.cmds[1]
               p == bot.pose
               a == bot.args
           IN  /\ c.mode = "MOVJ_XYZ_INC"
               /\ InExtents(p[1] + c.x, x_extents)
               /\ InExtents(p[2] + c.y, y_extents)
               /\ InExtents(p[3] + c.z, z_extents)
               /\ c.x = IF InExtents(p[1] + a[1], x_extents) THEN a[1] ELSE 0
               /\ c.y = IF InExtents(p[2] + a[2], y_extents) THEN a[2] ELSE 0
               /\ c.z = IF InExtents(p[3] + a[3], z_extents) THEN a[3] ELSE 0
C24_Witness ==
    /\ bot.call = "position_move_by" /\ bot.at = "returned"
    /\ bot.pose = <<350, -150, 0>>
    /\ bot.args = <<2, 3, -1>>
    /\ bot.cmds = <<PtpCmd("MOVJ_XYZ_INC", 0, 3, 0, 0)>>

(* C25: joint_move_to ends by returning, having sent one joint move
   command to the arm. *)
C25_JointMoveReturns ==
    /\ bot.at = "raised" => bot.call # "joint_move_to"
    /\ (bot.call = "joint_move_to" /\ bot.at = "returned") => Len(bot.cmds) = 1

(* C26: draw_triangle ends by returning, having commanded the three
   vertices in order and then the first vertex again, and having appended
   one triangle of these three vertices to the triangles list. *)
C26_TriangleDrawn ==
    (bot.call = "draw_triangle" /\ bot.at # "called") =>
        /\ bot.at = "returned"
        /\ Len(bot.triangles) = 1
        /\ Len(bot.triangles[1]) = 3
        /\ Len(bot.cmds) = 4
        /\ \A i \in 1..3 : <<bot.cmds[i].x, bot.cmds[i].y>> = bot.triangles[1][i]
        /\ bot.triangles[1][1] = SubSeq(bot.pose, 1, 2)
        /\ <<bot.cmds[4].x, bot.cmds[4].y>> = bot.triangles[1][1]

(* C29: draw_char with an unsupported character sends no command and
   leaves every shape list as it was; with A, E, F or Z it appends one entry
   to chars, and only the vertex marked "jump to here" (the fifth of E, the
   fourth of F) is reached with the pen up. *)
C29_CharDrawn ==
    (bot.call = "draw_char" /\ bot.at # "called") =>
        LET c == bot.args[1] IN
        /\ bot.at = "returned"
        /\ bot.squares = <<>> /\ bot.triangles = <<>>
        /\ c \in {"Q", "1", ""} => (bot.cmds = <<>> /\ bot.chars = <<>>)
        /\ c \in {"A", "a", "E", "e", "F", "f", "Z", "z"} =>
              /\ Len(bot.chars) = 1
              /\ Len(bot.cmds) = Len(bot.chars[1]) - 1
              /\ \A i \in 1..Len(bot.cmds) :
                    bot.cmds[i].mode = "JUMP_XYZ" <=>
                        \/ c \in {"E", "e"} /\ i = 5
                        \/ c \in {"F", "f"} /\ i = 4
C29_Witness ==
    /\ bot.call = "draw_char" /\ bot.at = "returned"
    /\ bot.args = <<"e", 4>>
    /\ bot.pose = <<160, 0, 0>>
    /\ Len(bot.cmds) = 6
    /\ bot.cmds[5] = PtpCmd("JUMP_XYZ", 164, 0, 0, 0)
    /\ bot.chars[1][1] = "E"

(* C31: at most one dancer_input thread of one Nebula object is active at
   any time, whatever the sequence of main_loop() calls. *)
ActiveLoops == {t \in 1..MaxCalls : loops[t] \notin {"unstarted", "stopped"}}
C31_OneActiveLoop == Cardinality(ActiveLoops) <= 1

(* C32: a call of terminate() leaves the five shared data fields and the
   deadline as they were, and in synthetic mode it changes nothing of the
   program's state. *)
C32_TerminateFrame ==
    [][termReturned' # termReturned =>
          /\ data' = data
          /\ endtime' = endtime
          /\ ~BITALINO_CONNECTED =>
                (hivemind' = hivemind /\ nebula' = nebula /\ thread' = thread /\ now' = now)]_vars
C32_Witness ==
    /\ termReturned >= 1
    /\ ~BITALINO_CONNECTED
    /\ endtime # None
    /\ ticks >= 1
    /\ current_dancer_x_y # Filled(BufWidth, <<Zero, Zero>>)

=============================================================================
